---- MODULE Spec2Model ----
(***************************************************************************)
(* Model of the EmotionSense-AI command-line inference scripts:            *)
(*   text-service/bilstm_onnx_inference.py   (TextTokenizer,               *)
(*                                            predict_emotion, main)       *)
(*   voice-service/huggingface_emotion.py    (classify_audio, __main__)    *)
(*   voice-service/emotion_inference.py      (disabled audio script)       *)
(*                                                                         *)
(* A Python str is the sequence of its Unicode code points (integers), so  *)
(* that every character, ASCII or not, can occur in a text.  A word, once   *)
(* split off, holds only the letters a-z and is turned into a string to be  *)
(* looked up in the vocabulary.                                             *)
(* A model score (a float in the code) is an integer level 0..MaxScore:    *)
(* only the order and equality of scores matter to the code modelled here. *)
(***************************************************************************)
EXTENDS Integers, Sequences, FiniteSets, TLC

(* ---------------------------- bounds ----------------------------------- *)
MaxPieces == 3
MaxLen == 2
MaxClasses == 2
MaxScore == 2
MaxLabelArg == 3

(* ------------------------ characters and strings ----------------------- *)
Range(s) == {s[i] : i \in DOMAIN s}

\* The letters a-z, code points 97..122
Letters ==
  <<"a","b","c","d","e","f","g","h","i","j","k","l","m",
    "n","o","p","q","r","s","t","u","v","w","x","y","z">>

\* The ASCII characters of code points 32..95
Ascii32 ==
  <<" ", "!", "\"", "#", "$", "%", "&", "'", "(", ")", "*", "+", ",", "-", ".", "/",
    "0", "1", "2", "3", "4", "5", "6", "7", "8", "9", ":", ";", "<", "=", ">", "?",
    "@", "A", "B", "C", "D", "E", "F", "G", "H", "I", "J", "K", "L", "M", "N", "O",
    "P", "Q", "R", "S", "T", "U", "V", "W", "X", "Y", "Z", "[", "\\", "]", "^", "_">>

\* chr(c) for a letter a-z
Chr(c) == Letters[c - 96]

\* ord(ch) for a character of the two tables
Ord(ch) ==
  IF \E i \in DOMAIN Letters : Letters[i] = ch
  THEN 96 + CHOOSE i \in DOMAIN Letters : Letters[i] = ch
  ELSE 31 + CHOOSE i \in DOMAIN Ascii32 : Ascii32[i] = ch

\* The str made of the given characters
Codes(chars) == [i \in DOMAIN chars |-> Ord(chars[i])]

\* The code points for which str.isspace() holds; str.split(), str.strip()
\* and the regex class \s use the same set: \t \n \v \f \r, U+001C..U+001F,
\* space, U+0085, U+00A0, U+1680, U+2000..U+200A, U+2028, U+2029, U+202F,
\* U+205F, U+3000.
Whitespace ==
  {9, 10, 11, 12, 13, 28, 29, 30, 31, 32, 133, 160, 5760}
    \cup (8192..8202) \cup {8232, 8233, 8239, 8287, 12288}

\* What text.lower() followed by re.sub(r'[^a-z\s]', '', text) leaves of one
\* character: A-Z become a-z; a-z and whitespace stay; U+0130 lower-cases to
\* 'i' + U+0307 and U+212A (KELVIN SIGN) to 'k', of which the letter stays;
\* the lower case of every other character is dropped by the substitution.
lower_keep(c) ==
  IF c \in 65..90 THEN <<c + 32>>
  ELSE IF c \in 97..122 \/ c \in Whitespace THEN <<c>>
  ELSE IF c = 304 THEN <<105>>
  ELSE IF c = 8490 THEN <<107>>
  ELSE <<>>

\* ''.join(chars) for a word of the letters a-z
RECURSIVE Str(_)
Str(chars) == IF chars = <<>> THEN "" ELSE Chr(Head(chars)) \o Str(Tail(chars))

\* str.split(): the maximal runs of non-whitespace characters, in order
RECURSIVE SplitWs(_, _)
SplitWs(chars, cur) ==
  IF chars = <<>>
  THEN IF cur = <<>> THEN <<>> ELSE <<cur>>
  ELSE IF Head(chars) \in Whitespace
       THEN IF cur = <<>>
            THEN SplitWs(Tail(chars), <<>>)
            ELSE <<cur>> \o SplitWs(Tail(chars), <<>>)
       ELSE SplitWs(Tail(chars), Append(cur, Head(chars)))

split(chars) == SplitWs(chars, <<>>)

\* str.split(sep) with a one-character separator: empty fields are kept
RECURSIVE SplitSep(_, _, _)
SplitSep(chars, sep, cur) ==
  IF chars = <<>>
  THEN <<cur>>
  ELSE IF Head(chars) = sep
       THEN <<cur>> \o SplitSep(Tail(chars), sep, <<>>)
       ELSE SplitSep(Tail(chars), sep, Append(cur, Head(chars)))

\* ' '.join(words)
RECURSIVE JoinSp(_)
JoinSp(words) ==
  IF words = <<>> THEN <<>>
  ELSE IF Len(words) = 1 THEN words[1]
  ELSE words[1] \o <<32>> \o JoinSp(Tail(words))

\* Variant: nothing is stripped.
strip_nothing(chars) == chars

\* str.strip()
RECURSIVE LStrip(_)
LStrip(chars) ==
  IF chars # <<>> /\ Head(chars) \in Whitespace THEN LStrip(Tail(chars)) ELSE chars

RECURSIVE RStrip(_)
RStrip(chars) ==
  IF chars # <<>> /\ chars[Len(chars)] \in Whitespace
  THEN RStrip(SubSeq(chars, 1, Len(chars) - 1))
  ELSE chars

strip(chars) == RStrip(LStrip(chars))

\* seq[:n] for any integer n (a negative n counts from the end)
Slice(seq, n) ==
  IF n >= 0
  THEN SubSeq(seq, 1, IF n < Len(seq) THEN n ELSE Len(seq))
  ELSE SubSeq(seq, 1, IF Len(seq) + n > 0 THEN Len(seq) + n ELSE 0)

(* ----------------------------- TextTokenizer --------------------------- *)
common_words ==
  << "<PAD>", "<UNK>",
     "i", "you", "he", "she", "it", "we", "they",
     "am", "is", "are", "was", "were", "be", "been", "being",
     "have", "has", "had", "do", "does", "did",
     "will", "would", "could", "should", "may", "might", "must",
     "can", "cannot", "cant",
     "the", "a", "an", "and", "or", "but", "if", "then",
     "not", "no", "yes",
     "happy", "sad", "angry", "fear", "scared", "afraid",
     "joy", "joyful", "excited", "excited",
     "upset", "frustrated", "annoyed", "mad",
     "love", "hate", "like", "dislike",
     "good", "bad", "great", "terrible", "awful",
     "feel", "feeling", "felt",
     "very", "really", "so", "too", "much",
     "sorry", "please", "thank", "thanks",
     "help", "need", "want", "wish",
     "think", "thought", "know", "believe",
     "see", "look", "hear", "listen",
     "go", "come", "get", "make", "take",
     "day", "time", "way", "people", "thing",
     "work", "life", "world", "home", "friend",
     "tell", "say", "said", "ask", "asked",
     "just", "now", "today", "never", "always",
     "about", "after", "before", "because", "when", "where",
     "what", "why", "how", "who", "which" >>

\* Variant: the two assignments after the comprehension are left out, so
\* '<PAD>' and '<UNK>' keep the indices 1 and 2 of the enumeration.
word_index_enumerated ==
  [w \in Range(common_words) |->
     CHOOSE i \in DOMAIN common_words :
       /\ common_words[i] = w
       /\ \A j \in DOMAIN common_words : common_words[j] = w => j <= i]

\* {word: idx + 1 for idx, word in enumerate(common_words)}: a word listed twice
\* keeps its last position; then '<PAD>' and '<UNK>' are set to 0 and 1.
word_index ==
  [w \in Range(common_words) |->
     IF w = "<PAD>" THEN 0
     ELSE IF w = "<UNK>" THEN 1
     ELSE CHOOSE i \in DOMAIN common_words :
            /\ common_words[i] = w
            /\ \A j \in DOMAIN common_words : common_words[j] = w => j <= i]

\* text.lower(), the substitution, then ' '.join(text.split())
RECURSIVE lower_and_filter(_)
lower_and_filter(text) ==
  IF text = <<>> THEN <<>>
  ELSE lower_keep(Head(text)) \o lower_and_filter(Tail(text))

preprocess_text(text) == JoinSp(split(lower_and_filter(text)))

\* Variant: an unknown word falls back to the padding index.
lookup_pad_default(word) ==
  IF Str(word) \in DOMAIN word_index THEN word_index[Str(word)] ELSE word_index["<PAD>"]

\* word_index.get(word, word_index['<UNK>'])
lookup(word) ==
  IF Str(word) \in DOMAIN word_index THEN word_index[Str(word)] ELSE word_index["<UNK>"]

\* Variant: the padding step is left out.
tokenize_unpadded(text, max_length) ==
  LET words == split(preprocess_text(text))
      kept  == Slice(words, max_length)
  IN  [i \in DOMAIN kept |-> lookup(kept[i])]

\* The row of the (1, max_length) array that tokenize returns.
tokenize(text, max_length) ==
  LET words    == split(preprocess_text(text))
      kept     == Slice(words, max_length)
      sequence == [i \in DOMAIN kept |-> lookup(kept[i])]
  IN  IF Len(sequence) < max_length
      THEN sequence \o [i \in 1..(max_length - Len(sequence)) |-> 0]
      ELSE sequence

\* np.count_nonzero
count_nonzero(seq) == Cardinality({i \in DOMAIN seq : seq[i] # 0})

(* --------------------------- predict_emotion --------------------------- *)
Failure(msg) == [success |-> FALSE, error |-> msg]

\* Variant: the last position holding the maximum.
argmax_last(predictions) ==
  CHOOSE i \in DOMAIN predictions :
    /\ \A j \in DOMAIN predictions : predictions[j] <= predictions[i]
    /\ \A j \in DOMAIN predictions : predictions[j] = predictions[i] => j <= i

\* np.argmax on a non-empty vector: the first position holding the maximum.
\* Positions are 1-based here, 0-based in the code.
argmax(predictions) ==
  CHOOSE i \in DOMAIN predictions :
    /\ \A j \in DOMAIN predictions : predictions[j] <= predictions[i]
    /\ \A j \in DOMAIN predictions : predictions[j] = predictions[i] => i <= j

\* scores = {}; for idx, label in enumerate(emotion_labels): scores[label] = ...
\* A label met again overwrites the entry of its earlier position.
RECURSIVE build_scores(_, _, _)
build_scores(emotion_labels, predictions, n) ==
  IF n = 0 THEN [l \in {} |-> 0]
  ELSE LET before == build_scores(emotion_labels, predictions, n - 1)
       IN  [l \in DOMAIN before \cup {emotion_labels[n]} |->
              IF l = emotion_labels[n] THEN predictions[n] ELSE before[l]]

\* Variant: the closing sentence reports the number of labels.
mismatch_message_swapped(n_predictions, n_labels) ==
  "Model output size (" \o ToString(n_predictions)
    \o ") doesn't match emotion labels count (" \o ToString(n_labels)
    \o "). Model expects " \o ToString(n_labels) \o " emotions."

mismatch_message(n_predictions, n_labels) ==
  "Model output size (" \o ToString(n_predictions)
    \o ") doesn't match emotion labels count (" \o ToString(n_labels)
    \o "). Model expects " \o ToString(n_predictions) \o " emotions."

\* Variant: the loop over the labels stops one label short.
format_result_short_scores(predictions, emotion_labels, text, input_sequence) ==
  IF Len(predictions) # Len(emotion_labels)
  THEN Failure(mismatch_message(Len(predictions), Len(emotion_labels)))
  ELSE LET max_idx == argmax(predictions)
       IN  [success     |-> TRUE,
            emotion     |-> emotion_labels[max_idx],
            confidence  |-> predictions[max_idx],
            scores      |-> build_scores(emotion_labels, predictions,
                                         Len(emotion_labels) - 1),
            model       |-> "bilstm_onnx",
            text_length |-> Len(text),
            tokens_used |-> count_nonzero(input_sequence)]

\* Variant: the confidence is read at the first position, not at max_idx.
format_result_first_confidence(predictions, emotion_labels, text, input_sequence) ==
  IF Len(predictions) # Len(emotion_labels)
  THEN Failure(mismatch_message(Len(predictions), Len(emotion_labels)))
  ELSE LET max_idx == argmax(predictions)
       IN  [success     |-> TRUE,
            emotion     |-> emotion_labels[max_idx],
            confidence  |-> predictions[1],
            scores      |-> build_scores(emotion_labels, predictions,
                                         Len(emotion_labels)),
            model       |-> "bilstm_onnx",
            text_length |-> Len(text),
            tokens_used |-> count_nonzero(input_sequence)]

\* The part of predict_emotion after session.run: the size check, argmax,
\* the scores dictionary and the result.
format_result(predictions, emotion_labels, text, input_sequence) ==
  IF Len(predictions) # Len(emotion_labels)
  THEN Failure(mismatch_message(Len(predictions), Len(emotion_labels)))
  ELSE LET max_idx == argmax(predictions)
       IN  [success     |-> TRUE,
            emotion     |-> emotion_labels[max_idx],
            confidence  |-> predictions[max_idx],
            scores      |-> build_scores(emotion_labels, predictions,
                                         Len(emotion_labels)),
            model       |-> "bilstm_onnx",
            text_length |-> Len(text),
            tokens_used |-> count_nonzero(input_sequence)]

(* --------------------------- classify_audio ---------------------------- *)
\* DEFAULT_LABELS: keys "0".."7" in the code, positions 1..8 here.
DEFAULT_LABELS ==
  [key_type |-> "str",
   labels   |-> <<"angry", "calm", "disgust", "fear",
                  "happy", "neutral", "sad", "surprise">>]

AudioModelTypes == {"wav2vec2", "wavlm", "hubert"}

\* A configuration's id2label: the type of its keys and its labels in key
\* order; no labels when the attribute is missing or empty.
get_label_mapping(config) ==
  IF config.id2label.labels # <<>> THEN config.id2label ELSE DEFAULT_LABELS

\* id2label.get(str(i), f"emotion_{i}") for the 0-based class number i
label_of(id2label, i) ==
  IF id2label.key_type = "str" /\ i + 1 \in DOMAIN id2label.labels
  THEN id2label.labels[i + 1]
  ELSE "emotion_" \o ToString(i)

\* max(probs); probs.index(max_prob), as a 1-based position
first_index_of_max(probs) ==
  LET max_prob == CHOOSE v \in Range(probs) : \A w \in Range(probs) : w <= v
  IN  CHOOSE i \in DOMAIN probs :
        probs[i] = max_prob /\ \A j \in DOMAIN probs : probs[j] = max_prob => i <= j

RECURSIVE build_audio_scores(_, _, _)
build_audio_scores(id2label, probs, n) ==
  IF n = 0 THEN [l \in {} |-> 0]
  ELSE LET before  == build_audio_scores(id2label, probs, n - 1)
           emotion == label_of(id2label, n - 1)
       IN  [l \in DOMAIN before \cup {emotion} |->
              IF l = emotion THEN probs[n] ELSE before[l]]

\* env is what the libraries do in this run: raise at some call, or deliver
\* a configuration and the softmax output. The message about a model that
\* is no audio model is the tuple of the pieces of its f-string.
classify_audio(model_name, env) ==
  IF env.raises = "config" THEN Failure(env.message)
  ELSE IF env.model_type \notin AudioModelTypes
  THEN Failure(<<"Model '", model_name, "' is a '", env.model_type,
                 "' model, not an audio model! Please use a Wav2Vec2/WavLM/Hubert model for audio emotion detection.">>)
  ELSE IF env.raises # "none" THEN Failure(env.message)
  ELSE LET id2label     == get_label_mapping(env)
           dominant_idx == first_index_of_max(env.probs)
       IN  [success    |-> TRUE,
            emotion    |-> label_of(id2label, dominant_idx - 1),
            confidence |-> env.probs[dominant_idx],
            scores     |-> build_audio_scores(id2label, env.probs, Len(env.probs)),
            model      |-> model_name]

(* ------------------------------- state --------------------------------- *)
VARIABLES
  script,          \* which script runs: "text", "hf" or "legacy"
  installed,       \* the third-party modules that can be imported
  argv,            \* sys.argv; argv[k + 1] here is sys.argv[k] in the code
  pc,              \* where the process is
  stdout,          \* the JSON objects printed to stdout, in order
  exit_status,     \* the process exit status once pc = "exited"
  traceback,       \* TRUE when an exception left the script uncaught
  tokenizer,       \* the TextTokenizer, or None
  text,            \* the text argument
  emotion_labels,  \* the list of labels
  input_sequence,  \* the row returned by tokenizer.tokenize
  session,         \* the loaded model: the ONNX session (its number of output
                   \* classes) or what the audio libraries delivered, or None
  predictions,     \* outputs[0][0], or probs in classify_audio
  result,          \* the dictionary the prediction function returned, or None
  calls            \* how often tokenize, load and run were called

vars == <<script, installed, argv, pc, stdout, exit_status, traceback, tokenizer,
          text, emotion_labels, input_sequence, session, predictions, result, calls>>

None == [none |-> TRUE]

IsSuccess(r) == "success" \in DOMAIN r /\ r.success
IsFailure(r) == "success" \in DOMAIN r /\ ~r.success

\* TextTokenizer(max_length=80) in main
MainMaxLength == 80

(* ------------------------------- inputs -------------------------------- *)
Pieces ==
  { Codes(<<"I">>), Codes(<<" ">>), Codes(<<"a", "m">>) \o <<9>>, Codes(<<"7">>),
    Codes(<<"<", "P", "A", "D", ">", " ">>), Codes(<<"x">>),
    <<8490, 11>>,      \* KELVIN SIGN, vertical tab
    <<304, 160>> }     \* I WITH DOT ABOVE, no-break space

\* The texts made of at most n pieces
RECURSIVE TextsOf(_)
TextsOf(n) ==
  IF n = 0 THEN {<<>>}
  ELSE LET shorter == TextsOf(n - 1)
       IN  shorter \cup {t \o p : t \in shorter, p \in Pieces}

SeqsUpTo(S, n) == UNION {[1..k -> S] : k \in 0..n}

CliTexts ==
  TextsOf(1)
    \cup {Codes(<<"I", " ", "a", "m", " ", "h", "a", "p", "p", "y">>),
          <<11>>, <<32, 31>>, <<97, 11, 98>>}

\* The label argument: strings of the characters 'a' and ','
LabelArgs == SeqsUpTo({97, 44}, MaxLabelArg)

\* Lists of the labels 'a' and 'b'
LabelLists == SeqsUpTo({<<97>>, <<98>>}, MaxClasses + 1)

Scores(n) == [1..n -> 0..MaxScore]

ModelPath == Codes(<<"m">>)
AudioPath == Codes(<<"w">>)

Modules(s) ==
  CASE s = "text"   -> {"numpy", "onnxruntime"}
    [] s = "hf"     -> {"transformers", "torch", "librosa"}
    [] s = "legacy" -> {"numpy", "tensorflow"}

FullArgv(s) ==
  CASE s = "text"   -> {<<Codes(<<"t">>), ModelPath, t, l>> : t \in CliTexts, l \in LabelArgs}
    [] s = "hf"     -> {<<Codes(<<"h">>), ModelPath, AudioPath>>}
    [] s = "legacy" -> {<<Codes(<<"e">>), ModelPath, AudioPath, l>> : l \in LabelArgs}

Argvs(s) == UNION {{SubSeq(a, 1, n) : n \in 1..Len(a)} : a \in FullArgv(s)}

HfEnvs ==
  [raises : {"config"}, message : {"config not found"},
   model_type : {"none"}, id2label : {[key_type |-> "str", labels |-> <<>>]},
   probs : {<<>>}]
  \cup
  [raises : {"none", "model", "audio", "inference"}, message : {"library error"},
   model_type : AudioModelTypes \cup {"roberta"},
   id2label : {[key_type |-> "str", labels |-> <<>>],
               [key_type |-> "int", labels |-> <<"neu", "hap">>],
               [key_type |-> "str", labels |-> <<"neu", "neu">>]},
   probs : UNION {Scores(n) : n \in 1..MaxClasses}]

(* -------------------------------- Init --------------------------------- *)
Locals ==
  /\ stdout = <<>>
  /\ exit_status = 0
  /\ traceback = FALSE
  /\ input_sequence = <<>>
  /\ predictions = <<>>
  /\ result = None
  /\ calls = [tokenize |-> 0, load |-> 0, run |-> 0]

\* A process about to run one of the scripts
Init ==
  /\ script \in {"text", "hf", "legacy"}
  /\ installed \in SUBSET Modules(script)
  /\ argv \in Argvs(script)
  /\ pc = "start"
  /\ tokenizer = None
  /\ session = None
  /\ text = <<>>
  /\ emotion_labels = <<>>
  /\ Locals

\* A call of predict_emotion(session, text, emotion_labels, tokenizer)
InitCall(texts, lengths, classes, labels) ==
  /\ script = "text"
  /\ installed = Modules("text")
  /\ argv = <<>>
  /\ pc = "tokenize"
  /\ text \in texts
  /\ tokenizer \in [max_length : lengths]
  /\ session \in [classes : classes]
  /\ emotion_labels \in labels
  /\ Locals

InitTokenize ==
  InitCall(TextsOf(MaxPieces), 0..MaxLen, {1}, {<<Codes(<<"h", "a", "p", "p", "y">>)>>})

InitPredict == InitCall(TextsOf(1), {MaxLen}, 1..MaxClasses, LabelLists)

(* ------------------------------ actions -------------------------------- *)
\* print(json.dumps(obj)) and the end of the process with the given status
Exit(obj, status) ==
  /\ stdout' = Append(stdout, obj)
  /\ exit_status' = status
  /\ pc' = "exited"
  /\ UNCHANGED traceback

\* An exception nothing catches: the interpreter prints a traceback to stderr
\* and exits with status 1; nothing is written to stdout.
Crash ==
  /\ traceback' = TRUE
  /\ exit_status' = 1
  /\ pc' = "exited"
  /\ UNCHANGED stdout

Goto(next) ==
  /\ pc' = next
  /\ UNCHANGED <<stdout, exit_status, traceback>>

\* bilstm_onnx_inference.py, the imports: numpy outside any try, onnxruntime
\* inside one.
TextImports ==
  /\ script = "text" /\ pc = "start"
  /\ IF "numpy" \notin installed THEN Crash
     ELSE IF "onnxruntime" \notin installed
     THEN Exit(Failure("onnxruntime not installed. Install with: pip install onnxruntime"), 1)
     ELSE Goto("main")
  /\ UNCHANGED <<script, installed, argv, tokenizer, text, emotion_labels,
                 input_sequence, session, predictions, result, calls>>

\* main: the argument count, then the three arguments. sys.exit raises
\* SystemExit, which "except Exception" does not catch.
TextParseArgs ==
  /\ script = "text" /\ pc = "main"
  /\ IF Len(argv) < 4
     THEN /\ Exit(Failure("Usage: python bilstm_onnx_inference.py <model_path> <text> <emotion_labels>"), 1)
          /\ UNCHANGED <<text, emotion_labels>>
     ELSE /\ text' = argv[3]
          /\ emotion_labels' = SplitSep(argv[4], 44, <<>>)
          /\ Goto("validate")
  /\ UNCHANGED <<script, installed, argv, tokenizer, input_sequence, session,
                 predictions, result, calls>>

\* main: if not text or len(text.strip()) == 0
TextValidate ==
  /\ script = "text" /\ pc = "validate"
  /\ IF text = <<>> \/ Len(strip(text)) = 0
     THEN Exit(Failure("Empty text provided"), 1)
     ELSE Goto("init_tokenizer")
  /\ UNCHANGED <<script, installed, argv, tokenizer, text, emotion_labels,
                 input_sequence, session, predictions, result, calls>>

\* main: tokenizer = TextTokenizer(max_length=80)
TextInitTokenizer ==
  /\ script = "text" /\ pc = "init_tokenizer"
  /\ tokenizer' = [max_length |-> MainMaxLength]
  /\ Goto("load")
  /\ UNCHANGED <<script, installed, argv, text, emotion_labels, input_sequence,
                 session, predictions, result, calls>>

\* main: session = load_onnx_model(model_path), the model loads
TextLoadModelOk ==
  /\ script = "text" /\ pc = "load"
  /\ \E c \in 1..MaxClasses : session' = [classes |-> c]
  /\ calls' = [calls EXCEPT !.load = @ + 1]
  /\ Goto("tokenize")
  /\ UNCHANGED <<script, installed, argv, tokenizer, text, emotion_labels,
                 input_sequence, predictions, result>>

\* load_onnx_model raises; main's except prints the failure and exits 1
TextLoadModelRaises ==
  /\ script = "text" /\ pc = "load"
  /\ calls' = [calls EXCEPT !.load = @ + 1]
  /\ Exit(Failure("Failed to load ONNX model: no such file"), 1)
  /\ UNCHANGED <<script, installed, argv, tokenizer, text, emotion_labels,
                 input_sequence, session, predictions, result>>

\* predict_emotion: input_sequence = tokenizer.tokenize(text)
Tokenize ==
  /\ script = "text" /\ pc = "tokenize"
  /\ input_sequence' = tokenize(text, tokenizer.max_length)
  /\ calls' = [calls EXCEPT !.tokenize = @ + 1]
  /\ Goto("run")
  /\ UNCHANGED <<script, installed, argv, tokenizer, text, emotion_labels,
                 session, predictions, result>>

\* predict_emotion: session.run returns one score per output class
RunInferenceOk ==
  /\ script = "text" /\ pc = "run"
  /\ predictions' \in Scores(session.classes)
  /\ calls' = [calls EXCEPT !.run = @ + 1]
  /\ Goto("format")
  /\ UNCHANGED <<script, installed, argv, tokenizer, text, emotion_labels,
                 input_sequence, session, result>>

\* predict_emotion: session.run raises; the except returns a failure
RunInferenceRaises ==
  /\ script = "text" /\ pc = "run"
  /\ result' = Failure("Prediction failed: " \o "invalid input")
  /\ calls' = [calls EXCEPT !.run = @ + 1]
  /\ Goto("returned")
  /\ UNCHANGED <<script, installed, argv, tokenizer, text, emotion_labels,
                 input_sequence, session, predictions>>

\* predict_emotion: the size check and the result
FormatResult ==
  /\ script = "text" /\ pc = "format"
  /\ result' = format_result(predictions, emotion_labels, text, input_sequence)
  /\ Goto("returned")
  /\ UNCHANGED <<script, installed, argv, tokenizer, text, emotion_labels,
                 input_sequence, session, predictions, calls>>

\* huggingface_emotion.py, the imports: all three inside one try
HfImports ==
  /\ script = "hf" /\ pc = "start"
  /\ IF Modules("hf") \subseteq installed
     THEN Goto("main")
     ELSE LET missing == IF "transformers" \notin installed THEN "transformers"
                         ELSE IF "torch" \notin installed THEN "torch"
                         ELSE "librosa"
          IN  Exit(Failure("Missing dependencies: No module named '" \o missing
                           \o "'. Install with: pip install transformers torch librosa soundfile"), 1)
  /\ UNCHANGED <<script, installed, argv, tokenizer, text, emotion_labels,
                 input_sequence, session, predictions, result, calls>>

\* huggingface_emotion.py __main__: sys.argv[1], sys.argv[2] and the call of
\* classify_audio. A missing argument raises IndexError, which the except
\* prints; the script then ends normally.
HfMain ==
  /\ script = "hf" /\ pc = "main"
  /\ IF Len(argv) < 3
     THEN /\ Exit(Failure("list index out of range"), 0)
          /\ UNCHANGED <<result, session, predictions>>
     ELSE /\ \E env \in HfEnvs :
               LET r == classify_audio(argv[2], env)
               IN  /\ result' = r
                   /\ session' = IF r.success THEN env ELSE None
                   /\ predictions' = IF r.success THEN env.probs ELSE <<>>
          /\ Goto("returned")
  /\ UNCHANGED <<script, installed, argv, tokenizer, text, emotion_labels,
                 input_sequence, calls>>

\* emotion_inference.py, the imports: numpy and tensorflow outside any try
LegacyImports ==
  /\ script = "legacy" /\ pc = "start"
  /\ IF Modules("legacy") \subseteq installed THEN Goto("main") ELSE Crash
  /\ UNCHANGED <<script, installed, argv, tokenizer, text, emotion_labels,
                 input_sequence, session, predictions, result, calls>>

\* emotion_inference.py __main__: predict_emotion always returns the same
\* failure.
LegacyMain ==
  /\ script = "legacy" /\ pc = "main"
  /\ IF Len(argv) < 4
     THEN /\ Exit(Failure("list index out of range"), 0)
          /\ UNCHANGED result
     ELSE /\ result' = Failure("This BiLSTM model (emotion_bilstm_final.h5) is a TEXT emotion model that expects tokenized text input, not audio. The model uses an Embedding layer which processes integer sequences (word tokens), not audio features. Please use the HuggingFace audio emotion model instead for voice emotion detection.")
          /\ Goto("returned")
  /\ UNCHANGED <<script, installed, argv, tokenizer, text, emotion_labels,
                 input_sequence, session, predictions, calls>>

\* print(json.dumps(result)) as the last statement of each script: the
\* process ends with status 0 whatever the result says.
Emit ==
  /\ pc = "returned"
  /\ Exit(result, 0)
  /\ UNCHANGED <<script, installed, argv, tokenizer, text, emotion_labels,
                 input_sequence, session, predictions, result, calls>>

(* --------------------------- specifications ---------------------------- *)
Next ==
  \/ TextImports \/ TextParseArgs \/ TextValidate \/ TextInitTokenizer
  \/ TextLoadModelOk \/ TextLoadModelRaises
  \/ Tokenize \/ RunInferenceOk \/ RunInferenceRaises \/ FormatResult
  \/ HfImports \/ HfMain \/ LegacyImports \/ LegacyMain
  \/ Emit

Spec == Init /\ [][Next]_vars

NextCall == Tokenize \/ RunInferenceOk \/ RunInferenceRaises \/ FormatResult

SpecTokenize == InitTokenize /\ [][NextCall]_vars

SpecPredict == InitPredict /\ [][NextCall]_vars

(* ------------------------------ properties ----------------------------- *)
Min(a, b) == IF a < b THEN a ELSE b

\* The words of the normalized text
Words(t) == split(preprocess_text(t))

\* The lowest position of v that holds its greatest value
IsFirstMax(v, i) ==
  /\ i \in DOMAIN v
  /\ \A j \in DOMAIN v : v[j] <= v[i]
  /\ \A j \in 1..(i - 1) : v[j] < v[i]

Distinct(labels) ==
  \A i, j \in DOMAIN labels : labels[i] = labels[j] => i = j

Blank(chars) == \A i \in DOMAIN chars : chars[i] \in Whitespace

Exited == pc = "exited"
Tokenized == script = "text" /\ pc \in {"run", "format", "returned"}

\* C1: a process that printed a failure, or ended on an uncaught exception,
\* exits with a non-zero status; one that printed a success exits with 0.
C1_ExitStatusTellsFailure ==
  Exited =>
    /\ (traceback \/ \E i \in DOMAIN stdout : IsFailure(stdout[i])) => exit_status # 0
    /\ (~traceback /\ \A i \in DOMAIN stdout : IsSuccess(stdout[i])) => exit_status = 0

\* C2: a finished process has written exactly one JSON object to stdout, a
\* success or a failure, and no exception left the script uncaught.
C2_ExactlyOneJsonObject ==
  Exited =>
    /\ Len(stdout) = 1
    /\ IsSuccess(stdout[1]) \/ IsFailure(stdout[1])
    /\ ~traceback

\* C3: tokenize returns exactly max_length integers; the positions after the
\* words of a short text hold 0.
C3_SequenceHasMaxLength ==
  Tokenized =>
    /\ Len(input_sequence) = tokenizer.max_length
    /\ \A i \in DOMAIN input_sequence : input_sequence[i] \in Nat
    /\ \A i \in DOMAIN input_sequence : i > Len(Words(text)) => input_sequence[i] = 0

\* C3 witness: a text of more words than max_length has been tokenized.
C3_Witness ==
  /\ Tokenized
  /\ tokenizer.max_length > 0
  /\ Len(Words(text)) > tokenizer.max_length

\* C4: position i up to min(n, max_length) holds the vocabulary index of the
\* i-th word, or 1 when the word is not in the vocabulary; every later
\* position holds 0.
C4_SequenceMapsWords ==
  Tokenized =>
    LET w == Words(text)
        m == Min(Len(w), tokenizer.max_length)
    IN  /\ \A i \in 1..m :
             input_sequence[i] =
               IF \E k \in DOMAIN common_words : common_words[k] = Str(w[i])
               THEN word_index[Str(w[i])] ELSE 1
        /\ \A i \in DOMAIN input_sequence : i > m => input_sequence[i] = 0
        /\ w = <<>> => \A i \in DOMAIN input_sequence : input_sequence[i] = 0

\* C4 witness: "x I" tokenized with max_length 2: an unknown word, then "i".
C4_Witness ==
  /\ Tokenized
  /\ text = Codes(<<"x", " ", "I">>)
  /\ input_sequence = <<1, 3>>

\* C5: a success names the label at the lowest position of the greatest
\* score, and its confidence is that score.
C5_EmotionIsFirstMaximum ==
  IsSuccess(result) =>
    \E i \in DOMAIN predictions :
      /\ IsFirstMax(predictions, i)
      /\ result.confidence = predictions[i]
      /\ result.emotion =
           IF script = "text" THEN emotion_labels[i]
           ELSE label_of(get_label_mapping(session), i - 1)

\* C5 witness: a success of the text script where two positions tie for the
\* greatest score.
C5_Witness ==
  /\ script = "text"
  /\ IsSuccess(result)
  /\ \E i, j \in DOMAIN predictions :
       i < j /\ predictions[i] = predictions[j] /\ IsFirstMax(predictions, i)

\* C6: when the number of scores differs from the number of labels,
\* predict_emotion returns the failure that names both numbers and gives the
\* number of scores as what the model expects.
C6_MismatchIsFailure ==
  (script = "text" /\ pc = "returned" /\ predictions # <<>>
     /\ Len(predictions) # Len(emotion_labels)) =>
    /\ IsFailure(result)
    /\ result.error =
         "Model output size (" \o ToString(Len(predictions))
           \o ") doesn't match emotion labels count ("
           \o ToString(Len(emotion_labels))
           \o "). Model expects " \o ToString(Len(predictions)) \o " emotions."

\* C6 witness: predict_emotion returned with more scores than labels.
C6_Witness ==
  /\ script = "text" /\ pc = "returned"
  /\ Len(predictions) > Len(emotion_labels)
  /\ IsFailure(result)

\* C7 as stated: for any list of labels, the scores of a success have one
\* entry per output class, label i paired with score i.
C7_OneEntryPerClass ==
  (script = "text" /\ IsSuccess(result)) =>
    /\ Cardinality(DOMAIN result.scores) = Len(predictions)
    /\ \A i \in DOMAIN emotion_labels :
         result.scores[emotion_labels[i]] = predictions[i]

\* C7 amended: the same for a list of pairwise different labels.
C7_OneEntryPerDistinctLabel ==
  (script = "text" /\ IsSuccess(result) /\ Distinct(emotion_labels)) =>
    /\ Cardinality(DOMAIN result.scores) = Len(predictions)
    /\ \A i \in DOMAIN emotion_labels :
         result.scores[emotion_labels[i]] = predictions[i]

\* C7 witness: a success with two different labels.
C7_Witness ==
  /\ script = "text" /\ IsSuccess(result)
  /\ Len(emotion_labels) >= 2 /\ Distinct(emotion_labels)

\* C8: tokens_used of a success is min(number of words, max_length).
C8_TokensUsedCountsWords ==
  (script = "text" /\ IsSuccess(result)) =>
    result.tokens_used = Min(Len(Words(text)), tokenizer.max_length)

\* C8 witness: a success for a text with a word outside the vocabulary
\* ("<PAD> x" normalizes to "pad x").
C8_Witness ==
  /\ script = "text" /\ IsSuccess(result)
  /\ text = Codes(<<"<", "P", "A", "D", ">", " ", "x">>)
  /\ result.tokens_used = 2

\* C9: with a blank text argument the text script never builds the
\* tokenizer, loads the model, tokenizes or runs the model, and a complete
\* invocation ends with the failure "Empty text provided"; that failure is
\* never printed for a text that is not blank.
C9_BlankTextRejectedFirst ==
  (script = "text" /\ Len(argv) >= 3) =>
    /\ Blank(argv[3]) =>
         /\ calls = [tokenize |-> 0, load |-> 0, run |-> 0]
         /\ tokenizer = None /\ session = None
         /\ pc \in {"start", "main", "validate", "exited"}
         /\ (Exited /\ Len(argv) >= 4 /\ Modules("text") \subseteq installed) =>
              /\ stdout = <<Failure("Empty text provided")>>
              /\ exit_status = 1
    /\ ~Blank(argv[3]) =>
         \A i \in DOMAIN stdout :
           IsFailure(stdout[i]) => stdout[i].error # "Empty text provided"

\* C9 witness: the text script ended on "Empty text provided" for a text of
\* a space and U+001F.
C9_Witness ==
  /\ script = "text" /\ Exited
  /\ Len(argv) = 4 /\ argv[3] = <<32, 31>>
  /\ stdout = <<Failure("Empty text provided")>>

\* C10 as stated: for any list of labels of the right length, the score
\* stored under the emotion is the confidence, and no score exceeds it.
C10_FieldsConsistent ==
  (script = "text" /\ IsSuccess(result)) =>
    /\ result.scores[result.emotion] = result.confidence
    /\ \A l \in DOMAIN result.scores : result.scores[l] <= result.confidence

\* C10 amended: the same for a list of pairwise different labels.
C10_FieldsConsistentDistinctLabels ==
  (script = "text" /\ IsSuccess(result) /\ Distinct(emotion_labels)) =>
    /\ result.scores[result.emotion] = result.confidence
    /\ \A l \in DOMAIN result.scores : result.scores[l] <= result.confidence

\* C10 witness: a success with different labels whose greatest score is not
\* at the first position.
C10_Witness ==
  /\ script = "text" /\ IsSuccess(result)
  /\ Len(emotion_labels) >= 2 /\ Distinct(emotion_labels)
  /\ predictions[1] < result.confidence

====
